---- MODULE Spec2Model ----
(***************************************************************************)
(* A model of swoosh.py: the documentation generator that walks source     *)
(* directories, extracts docstrings and function signatures through the    *)
(* ast module, and renders one HTML page with an embedded client script.   *)
(*                                                                         *)
(* Text is modelled as a sequence of one-character strings, so that the    *)
(* conversions of the program (cleandoc, join, basename, relpath,          *)
(* toLowerCase, includes) are computed character by character.             *)
(*                                                                         *)
(* Four specifications share the module:                                   *)
(*   Spec      main() / generate_html() over a file system                 *)
(*   SpecScan  get_function_info() over bounded syntax trees               *)
(*   SpecDoc   get_file_docstring() over bounded string literals           *)
(*   SpecUI    the embedded client-side script over the rendered page      *)
(***************************************************************************)
EXTENDS Integers, Sequences, FiniteSets

VARIABLES
    \* ---- Spec: main() / generate_html()
    argv,           \* sys.argv[1:]
    fs,             \* the files below directory P, in enumeration order
    caller,         \* who called generate_html: "main", "api", "none" before
    pc,             \* position of the run
    exc,            \* the exception that ended the run, "none" otherwise
    directories,    \* generate_html's first parameter, as received
    output_file,    \* generate_html's second parameter, as received
    di,             \* index of the directory being iterated (line 102)
    fi,             \* index of the next file of os.walk's enumeration (line 107)
    html_content,   \* the list of appended fragments (line 33)
    all_functions,  \* the flat list (line 100)
    written,        \* the file the run wrote: its path and its fragments
    stdout,         \* the printed lines
    \* ---- SpecScan: get_function_info()
    tree,           \* the parsed module
    scanned,        \* the returned list, once the call has returned
    \* ---- SpecDoc: get_file_docstring()
    srcfile,        \* the file handed to get_file_docstring
    docstring,      \* the returned text, once the call has returned
    \* ---- SpecUI: the client-side script
    style,          \* inline style.display of #fileTree, #functionList, #viewTitle
    liDisplay,      \* inline style.display of every <li>
    active,         \* which ul.nested carry the class "active"
    caretDown,      \* which carets carry the class "caret-down"
    query,          \* the search box's value
    toggleClicks    \* the parity of the clicks on #toggleViewBtn so far

vars_pipe == <<argv, fs, caller, pc, exc, directories, output_file, di, fi,
               html_content, all_functions, written, stdout>>
vars_scan == <<tree, scanned>>
vars_doc == <<srcfile, docstring>>
vars_ui == <<style, liDisplay, active, caretDown, query, toggleClicks>>
vars == <<vars_pipe, vars_scan, vars_doc, vars_ui>>

(***************************************************************************)
(* Bounds of the model.                                                    *)
(***************************************************************************)
MaxLit == 4
MaxNodes == 4
MaxFiles == 2
MaxArgs == 2
MaxQuery == 2

(***************************************************************************)
(* Text helpers: Python's str operations on sequences of characters.       *)
(***************************************************************************)
Min(a, b) == IF a < b THEN a ELSE b

RECURSIVE Spaces(_)
Spaces(n) == IF n <= 0 THEN <<>> ELSE <<" ">> \o Spaces(n - 1)

\* str.expandtabs() uses a tab size of 8 by default.
TabSize == 8

\* str.expandtabs(), the column restarting after every newline
RECURSIVE ExpandTabsFrom(_, _)
ExpandTabsFrom(s, col) ==
    IF s = <<>> THEN <<>>
    ELSE IF Head(s) = "\t"
         THEN LET n == TabSize - (col % TabSize)
              IN  Spaces(n) \o ExpandTabsFrom(Tail(s), col + n)
    ELSE IF Head(s) = "\n"
         THEN <<"\n">> \o ExpandTabsFrom(Tail(s), 0)
    ELSE <<Head(s)>> \o ExpandTabsFrom(Tail(s), col + 1)

ExpandTabs(s) == ExpandTabsFrom(s, 0)

\* str.split(sep) for a one-character sep: always at least one piece
RECURSIVE SplitAcc(_, _, _)
SplitAcc(s, sep, cur) ==
    IF s = <<>> THEN <<cur>>
    ELSE IF Head(s) = sep THEN <<cur>> \o SplitAcc(Tail(s), sep, <<>>)
    ELSE SplitAcc(Tail(s), sep, Append(cur, Head(s)))

Split(s, sep) == SplitAcc(s, sep, <<>>)

\* sep.join(parts)
RECURSIVE Join(_, _)
Join(parts, sep) ==
    IF parts = <<>> THEN <<>>
    ELSE IF Len(parts) = 1 THEN parts[1]
    ELSE parts[1] \o sep \o Join(Tail(parts), sep)

IsSpace(c) == c \in {" ", "\t", "\n"}

\* str.lstrip()
RECURSIVE Lstrip(_)
Lstrip(s) == IF s # <<>> /\ IsSpace(Head(s)) THEN Lstrip(Tail(s)) ELSE s

\* s[n:]
Drop(s, n) == IF n >= Len(s) THEN <<>> ELSE SubSeq(s, n + 1, Len(s))

\* s.endswith(suffix)
EndsWith(s, suffix) ==
    /\ Len(s) >= Len(suffix)
    /\ SubSeq(s, Len(s) - Len(suffix) + 1, Len(s)) = suffix

\* s.startswith(prefix)
StartsWith(s, prefix) ==
    /\ Len(s) >= Len(prefix)
    /\ SubSeq(s, 1, Len(prefix)) = prefix

(***************************************************************************)
(* inspect.cleandoc, which ast.get_docstring applies (clean=True is the    *)
(* default and the program never passes clean=False).                      *)
(***************************************************************************)
\* sys.maxsize stands for "no non-blank continuation line"
NoMargin == -1

\* the minimum indentation of the non-blank lines
RECURSIVE Margin(_)
Margin(lines) ==
    IF lines = <<>> THEN NoMargin
    ELSE LET line == Head(lines)
             content == Len(Lstrip(line))
             rest == Margin(Tail(lines))
         IN  IF content = 0 THEN rest
             ELSE IF rest = NoMargin THEN Len(line) - content
             ELSE Min(rest, Len(line) - content)

RECURSIVE PopTrailingBlank(_)
PopTrailingBlank(lines) ==
    IF lines # <<>> /\ lines[Len(lines)] = <<>>
    THEN PopTrailingBlank(SubSeq(lines, 1, Len(lines) - 1))
    ELSE lines

RECURSIVE PopLeadingBlank(_)
PopLeadingBlank(lines) ==
    IF lines # <<>> /\ Head(lines) = <<>>
    THEN PopLeadingBlank(Tail(lines))
    ELSE lines

Cleandoc(doc) ==
    LET lines == Split(ExpandTabs(doc), "\n")
        margin == Margin(Tail(lines))
        first == Lstrip(Head(lines))
        others == [i \in 1..(Len(lines) - 1) |->
                      IF margin = NoMargin THEN lines[i + 1]
                      ELSE Drop(lines[i + 1], margin)]
    IN  Join(PopLeadingBlank(PopTrailingBlank(<<first>> \o others)), <<"\n">>)

\* what a call returns: the value, or the exception it raised
Returned(v) == [exc |-> "none", val |-> v]
Raised(e) == [exc |-> e, val |-> <<>>]

(***************************************************************************)
(* Syntax trees.  A tree is a sequence of nodes, node 1 the Module; every  *)
(* other node names its parent, and the children of a node, in source      *)
(* order, are the nodes naming it, by ascending index.                     *)
(***************************************************************************)
NoDoc == [has |-> FALSE, lit |-> <<>>]
DocLit(s) == [has |-> TRUE, lit |-> s]
NoArguments ==
    [posonlyargs |-> <<>>, args |-> <<>>, vararg |-> <<>>,
     kwonlyargs |-> <<>>, kwarg |-> <<>>]
Digits == <<"1", "2", "3", "4", "5", "6", "7", "8", "9">>
NodeName(i) == <<"f", Digits[i]>>
ModuleNode(doc) ==
    [kind |-> "Module", parent |-> 0, name |-> <<>>, doc |-> doc,
     args |-> NoArguments]
Node(i, parent, form) ==
    [kind |-> form.kind, parent |-> parent, name |-> NodeName(i),
     doc |-> form.doc, args |-> form.args]

\* the files a directory can hold
SourceFile(name, status, mod) == [name |-> name, status |-> status, mod |-> mod]

\* open(filepath, 'r'): lines 7 and 17, outside the try
OpenFile(file) ==
    IF file.status = "unopenable" THEN Raised("OSError") ELSE Returned(file)

\* ast.parse(file.read(), filename=filepath): lines 9 and 19, inside the try
AstParse(file) ==
    IF file.status = "ok" THEN Returned(file.mod)
    ELSE IF file.status = "undecodable" THEN Raised("UnicodeDecodeError")
    ELSE Raised("SyntaxError")

\* ast.get_docstring(node, clean=False): the first statement's literal, or None
RawDocstring(node) ==
    IF node.doc.has THEN [isNone |-> FALSE, text |-> node.doc.lit]
    ELSE [isNone |-> TRUE, text |-> <<>>]

\* ast.get_docstring(node): the literal cleaned by inspect.cleandoc
GetDocstring(node) ==
    IF node.doc.has THEN [isNone |-> FALSE, text |-> Cleandoc(node.doc.lit)]
    ELSE [isNone |-> TRUE, text |-> <<>>]

\* x or ""
OrEmpty(x) == IF x.isNone THEN <<>> ELSE x.text

\* get_file_docstring without the try/except around the parse
GetFileDocstringNoTry(file) ==
    IF OpenFile(file).exc # "none" THEN Raised(OpenFile(file).exc)
    ELSE IF AstParse(file).exc # "none" THEN Raised(AstParse(file).exc)
    ELSE Returned(OrEmpty(GetDocstring(AstParse(file).val[1])))

\* get_file_docstring, lines 6-12
GetFileDocstring(file) ==
    IF OpenFile(file).exc # "none" THEN Raised(OpenFile(file).exc)
    ELSE IF AstParse(file).exc # "none" THEN Returned(<<>>)
    ELSE Returned(OrEmpty(GetDocstring(AstParse(file).val[1])))

\* ast.iter_child_nodes: the children of node n in source order
IterChildNodes(t, n) ==
    SelectSeq([i \in 1..Len(t) |-> i], LAMBDA i : t[i].parent = n)

\* a walk that pops the newest node first (a stack instead of a queue)
RECURSIVE WalkStack(_, _)
WalkStack(t, todo) ==
    IF todo = <<>> THEN <<>>
    ELSE <<Head(todo)>> \o WalkStack(t, IterChildNodes(t, Head(todo)) \o Tail(todo))

AstWalkDepthFirst(t) == WalkStack(t, <<1>>)

\* a walk over the module's own body only
AstWalkTopLevel(t) == <<1>> \o IterChildNodes(t, 1)

\* ast.walk: todo = deque([node]); popleft, extend with the children
RECURSIVE WalkQueue(_, _)
WalkQueue(t, todo) ==
    IF todo = <<>> THEN <<>>
    ELSE <<Head(todo)>> \o WalkQueue(t, Tail(todo) \o IterChildNodes(t, Head(todo)))

AstWalk(t) == WalkQueue(t, <<1>>)

\* isinstance(node, (ast.FunctionDef, ast.AsyncFunctionDef)), line 24
IsFunctionDef(node) == node.kind \in {"FunctionDef", "AsyncFunctionDef"}

\* lines 25-28: (name, docstring, params)
FunctionEntry(node) ==
    [name |-> node.name,
     docstring |-> OrEmpty(GetDocstring(node)),
     params |-> node.args.args]

\* lines 23-30
ScanFunctions(t) ==
    LET order == AstWalk(t)
        defs == SelectSeq(order, LAMBDA i : IsFunctionDef(t[i]))
    IN  [k \in 1..Len(defs) |-> FunctionEntry(t[defs[k]])]

\* get_function_info, lines 14-30
GetFunctionInfo(file) ==
    IF OpenFile(file).exc # "none" THEN Raised(OpenFile(file).exc)
    ELSE IF AstParse(file).exc # "none" THEN Returned(<<>>)
    ELSE Returned(ScanFunctions(AstParse(file).val))

(***************************************************************************)
(* Paths, and the file system the run reads.                               *)
(***************************************************************************)
PySuffix == <<".", "p", "y">>
TxtSuffix == <<".", "t", "x", "t">>
OutputName ==
    <<"d", "o", "c", "u", "m", "e", "n", "t", "a", "t", "i", "o", "n", ".",
      "h", "t", "m", "l">>
ConfirmationPrefix ==
    <<"H", "T", "M", "L", " ", "d", "o", "c", "u", "m", "e", "n", "t", "a",
      "t", "i", "o", "n", " ", "w", "r", "i", "t", "t", "e", "n", " ", "t",
      "o", " ">>
NoParameters == <<"N", "o", " ", "p", "a", "r", "a", "m", "e", "t", "e", "r", "s">>
NoDocstring == <<"N", "o", " ", "d", "o", "c", "s", "t", "r", "i", "n", "g">>

\* the directories of the model: ./p and ./s/q below the working directory
P == <<"p">>
Q == <<"s", "/", "q">>
Cwd == <<".">>

\* Python values that reach generate_html: a str or a list
PyStr(chars) == [type |-> "str", val |-> chars]
PyList(items) == [type |-> "list", val |-> items]

\* for x in v: the items of a list, the characters of a str
Iterate(v) ==
    IF v.type = "list" THEN v.val
    ELSE [i \in 1..Len(v.val) |-> <<v.val[i]>>]

\* os.path.basename: what follows the last "/"
RECURSIVE Basename(_)
Basename(path) ==
    IF \E i \in 1..Len(path) : path[i] = "/"
    THEN Basename(Tail(path))
    ELSE path

\* os.path.join(root, file)
PathJoin(root, file) == root \o <<"/">> \o file

\* os.path.normpath of a relative path: a leading "." component is dropped
Normpath(path) ==
    IF path = Cwd THEN <<>>
    ELSE IF StartsWith(path, <<".", "/">>) THEN Drop(path, 2)
    ELSE path

\* os.path.relpath(path, start), for a path below start
Relpath(path, start) ==
    IF Normpath(start) = <<>> THEN Normpath(path)
    ELSE Drop(Normpath(path), Len(Normpath(start)) + 1)

\* the modules the files of the model hold
ArgsXY == [NoArguments EXCEPT !.args = <<"x", "y">>]
ArgsFull ==
    [posonlyargs |-> <<"a">>, args |-> <<"b", "c">>, vararg |-> <<"r">>,
     kwonlyargs |-> <<"k">>, kwarg |-> <<"w">>]
FormDef == [kind |-> "FunctionDef", doc |-> DocLit(<<" ", "d">>), args |-> ArgsXY]
FormPlain == [kind |-> "FunctionDef", doc |-> NoDoc, args |-> NoArguments]
FormAsync == [kind |-> "AsyncFunctionDef", doc |-> NoDoc, args |-> ArgsFull]
FormClass == [kind |-> "ClassDef", doc |-> NoDoc, args |-> NoArguments]
FormIf == [kind |-> "If", doc |-> NoDoc, args |-> NoArguments]

\* """ M""" / def f2(x, y): """ d"""; def f3(): ... / def f4(): ...
ModA ==
    <<ModuleNode(DocLit(<<" ", "M">>)), Node(2, 1, FormDef), Node(3, 2, FormPlain),
      Node(4, 1, FormPlain)>>
\* async def f2(a, /, b, c, *r, k, **w): ...
ModB == <<ModuleNode(NoDoc), Node(2, 1, FormAsync)>>
ModNone == <<ModuleNode(NoDoc)>>

Letters == <<"a", "b", "c", "d", "e">>
FileForms ==
    {[ext |-> TxtSuffix, status |-> "ok", mod |-> ModNone],
     [ext |-> PySuffix, status |-> "syntax_error", mod |-> ModNone],
     [ext |-> PySuffix, status |-> "undecodable", mod |-> ModNone],
     [ext |-> PySuffix, status |-> "unopenable", mod |-> ModNone],
     [ext |-> PySuffix, status |-> "ok", mod |-> ModA],
     [ext |-> PySuffix, status |-> "ok", mod |-> ModB]}

\* the enumerations of ./p: up to MaxFiles files, named a, b, ... in order
Listings ==
    UNION {{[i \in 1..n |-> SourceFile(<<Letters[i]>> \o f[i].ext, f[i].status, f[i].mod)] :
              f \in [1..n -> FileForms]} : n \in 0..MaxFiles}

\* ./s/q holds one file, g.py
QFile == SourceFile(<<"g">> \o PySuffix, "ok", ModB)

ArgLists == UNION {[1..n -> {P, Q}] : n \in 0..MaxArgs}

\* os.walk(directory), flattened to (root, file) in enumeration order; a path
\* that names no directory yields nothing (os.walk ignores the scandir error)
OsWalk(directory) ==
    IF directory = P THEN [i \in 1..Len(fs) |-> [root |-> P, file |-> fs[i]]]
    ELSE IF directory = Q THEN <<[root |-> Q, file |-> QFile]>>
    ELSE IF directory = Cwd
    THEN [i \in 1..Len(fs) |-> [root |-> PathJoin(Cwd, P), file |-> fs[i]]]
         \o <<[root |-> PathJoin(Cwd, Q), file |-> QFile]>>
    ELSE <<>>

(***************************************************************************)
(* generate_html: the fragments appended to html_content.                  *)
(***************************************************************************)
Frag(t, text, path) == [t |-> t, text |-> text, path |-> path]
Tag(t) == Frag(t, <<>>, <<>>)

\* lines 33-98
Preamble ==
    <<Tag("head"), Tag("style_script"), Tag("h1"), Tag("search_box"),
      Tag("toggle_btn"), Tag("view_title"), Tag("file_tree")>>

\* line 122
ParamList(params) ==
    IF params # <<>>
    THEN Join([i \in 1..Len(params) |-> <<params[i]>>], <<",", " ">>)
    ELSE NoParameters

\* line 123
DocstringHtml(func_docstring) ==
    IF func_docstring # <<>> THEN func_docstring ELSE NoDocstring

\* lines 116-117
FileDocLeaf(file_docstring) ==
    IF file_docstring # <<>> THEN <<Frag("filedoc", file_docstring, <<>>)>> ELSE <<>>

\* lines 125-129
FunctionNode(fn) ==
    <<Frag("func", fn.name, <<>>), Tag("ul_nested"),
      Frag("params", ParamList(fn.params), <<>>),
      Frag("doc", DocstringHtml(fn.docstring), <<>>), Tag("end")>>

RECURSIVE FunctionNodes(_)
FunctionNodes(fns) ==
    IF fns = <<>> THEN <<>> ELSE FunctionNode(Head(fns)) \o FunctionNodes(Tail(fns))

\* an entry put in front of the list instead of behind it
AllFunctionsAddFront(all, relpath, fn) ==
    <<[path |-> relpath, name |-> fn.name, params |-> ParamList(fn.params),
       doc |-> DocstringHtml(fn.docstring)]>> \o all

\* line 131
AllFunctionsAdd(all, relpath, fn) ==
    Append(all, [path |-> relpath, name |-> fn.name,
                 params |-> ParamList(fn.params),
                 doc |-> DocstringHtml(fn.docstring)])

RECURSIVE AllFunctionsExtend(_, _, _)
AllFunctionsExtend(all, relpath, fns) ==
    IF fns = <<>> THEN all
    ELSE AllFunctionsExtend(AllFunctionsAdd(all, relpath, Head(fns)), relpath, Tail(fns))

\* lines 143-147
FunctionListItem(e) ==
    <<Frag("flat", e.name, e.path), Tag("ul"), Frag("params", e.params, <<>>),
      Frag("doc", e.doc, <<>>), Tag("end")>>

RECURSIVE FunctionListItems(_)
FunctionListItems(all) ==
    IF all = <<>> THEN <<>>
    ELSE FunctionListItem(Head(all)) \o FunctionListItems(Tail(all))

\* lines 137-150
Epilogue(all) ==
    <<Tag("end_tree"), Tag("function_list"), Tag("h2")>> \o FunctionListItems(all)
    \o <<Tag("end_list"), Tag("end_body")>>

(***************************************************************************)
(* Spec: one run of main(), or one call of generate_html(argv, name).      *)
(***************************************************************************)
\* documentation.html does not exist until it is written
NothingWritten == [path |-> <<>>, content |-> <<>>]

NotCalled == [done |-> FALSE, exc |-> "none", val |-> <<>>]

InitScanIdle == tree = <<>> /\ scanned = NotCalled
InitDocIdle == srcfile = <<>> /\ docstring = NotCalled
InitUIIdle ==
    /\ style = <<>>
    /\ liDisplay = <<>>
    /\ active = {}
    /\ caretDown = {}
    /\ query = <<>>
    /\ toggleClicks = 0

Init ==
    /\ argv \in ArgLists
    /\ fs \in Listings
    /\ caller = "none"
    /\ pc = "start"
    /\ exc = "none"
    /\ directories = PyList(<<>>)
    /\ output_file = PyStr(<<>>)
    /\ di = 1
    /\ fi = 1
    /\ html_content = <<>>
    /\ all_functions = <<>>
    /\ written = NothingWritten
    /\ stdout = <<>>
    /\ InitScanIdle
    /\ InitDocIdle
    /\ InitUIIdle

\* the variables of the other specifications
PipeOnly == UNCHANGED <<vars_scan, vars_doc, vars_ui>>

\* lines 32-100: generate_html is entered with its two parameters
Enter(dirs, out) ==
    /\ directories' = dirs
    /\ output_file' = out
    /\ html_content' = Preamble
    /\ all_functions' = <<>>
    /\ di' = 1
    /\ fi' = 1
    /\ pc' = "loop"
    /\ UNCHANGED <<argv, fs, exc, written, stdout>>
    /\ PipeOnly

\* the call as main() would make it with the parameters in declared order
GenerateHtmlCall == Enter(PyList(argv), PyStr(OutputName))

\* line 165: generate_html(output, dirs)
MainCall == Enter(PyStr(OutputName), PyList(argv))

\* main(), lines 161-165
Main ==
    /\ pc = "start"
    /\ caller' = "main"
    /\ MainCall

\* generate_html(argv, 'documentation.html') called as a library function
CallGenerateHtml ==
    /\ pc = "start"
    /\ caller' = "api"
    /\ GenerateHtmlCall

CurrentDirectory == Iterate(directories)[di]

\* lines 102-104: the next directory of the loop
NextDirectory ==
    /\ pc = "loop"
    /\ di <= Len(Iterate(directories))
    /\ html_content' = html_content
           \o <<Frag("dir", Basename(CurrentDirectory), <<>>), Tag("ul_nested")>>
    /\ fi' = 1
    /\ pc' = "walk"
    /\ UNCHANGED <<argv, fs, caller, exc, directories, output_file, di,
                   all_functions, written, stdout>>
    /\ PipeOnly

\* lines 107-133: the next file of os.walk's enumeration
VisitFile ==
    /\ pc = "walk"
    /\ fi <= Len(OsWalk(CurrentDirectory))
    /\ LET item == OsWalk(CurrentDirectory)[fi]
           file == item.file
           relpath == Relpath(PathJoin(item.root, file.name), CurrentDirectory)
           opened == <<Frag("file", relpath, <<>>), Tag("ul_nested")>>
           doc == GetFileDocstring(file)
           fns == GetFunctionInfo(file)
       IN  IF ~EndsWith(file.name, PySuffix)
           THEN /\ fi' = fi + 1
                /\ UNCHANGED <<pc, exc, html_content, all_functions>>
           ELSE IF doc.exc # "none" \/ fns.exc # "none"
           THEN /\ pc' = "crashed"
                /\ exc' = (IF doc.exc # "none" THEN doc.exc ELSE fns.exc)
                /\ html_content' = html_content \o opened
                       \o (IF doc.exc # "none" THEN <<>> ELSE FileDocLeaf(doc.val))
                /\ UNCHANGED <<fi, all_functions>>
           ELSE /\ html_content' = html_content \o opened \o FileDocLeaf(doc.val)
                       \o FunctionNodes(fns.val) \o <<Tag("end")>>
                /\ all_functions' = AllFunctionsExtend(all_functions, relpath, fns.val)
                /\ fi' = fi + 1
                /\ UNCHANGED <<pc, exc>>
    /\ UNCHANGED <<argv, fs, caller, directories, output_file, di, written, stdout>>
    /\ PipeOnly

\* line 135: os.walk is exhausted
EndDirectory ==
    /\ pc = "walk"
    /\ fi > Len(OsWalk(CurrentDirectory))
    /\ html_content' = Append(html_content, Tag("end"))
    /\ di' = di + 1
    /\ pc' = "loop"
    /\ UNCHANGED <<argv, fs, caller, exc, directories, output_file, fi,
                   all_functions, written, stdout>>
    /\ PipeOnly

\* lines 137-155: the flat list, the write and the confirmation line;
\* open(output_file, 'w') raises TypeError unless output_file is a str
WriteOutput ==
    /\ pc = "loop"
    /\ di > Len(Iterate(directories))
    /\ html_content' = html_content \o Epilogue(all_functions)
    /\ IF output_file.type = "str"
       THEN /\ written' = [path |-> output_file.val, content |-> html_content']
            /\ stdout' = Append(stdout, ConfirmationPrefix \o output_file.val)
            /\ pc' = "done"
            /\ exc' = "none"
       ELSE /\ pc' = "crashed"
            /\ exc' = "TypeError"
            /\ UNCHANGED <<written, stdout>>
    /\ UNCHANGED <<argv, fs, caller, directories, output_file, di, fi, all_functions>>
    /\ PipeOnly

Next ==
    \/ Main
    \/ CallGenerateHtml
    \/ NextDirectory
    \/ VisitFile
    \/ EndDirectory
    \/ WriteOutput

Spec == Init /\ [][Next]_vars

(***************************************************************************)
(* Reading the rendered document back: the file nodes and function nodes   *)
(* of the tree view, and the entries of the flat list.                     *)
(***************************************************************************)
Indices(frags, kinds) ==
    SelectSeq([i \in 1..Len(frags) |-> i], LAMBDA i : frags[i].t \in kinds)

\* the last index below j whose fragment is of kind t (0 if none)
LastBefore(frags, j, t) ==
    LET S == {i \in 1..(j - 1) : frags[i].t = t}
    IN  IF S = {} THEN 0 ELSE CHOOSE i \in S : \A k \in S : k <= i

\* the function nodes of the tree view, each with the path of its file node
TreeFunctions(frags) ==
    LET idx == Indices(frags, {"func"})
    IN  [k \in 1..Len(idx) |->
            [path |-> frags[LastBefore(frags, idx[k], "file")].text,
             name |-> frags[idx[k]].text,
             params |-> frags[idx[k] + 2].text,
             doc |-> frags[idx[k] + 3].text]]

\* the entries of the flat function list
FlatEntries(frags) ==
    LET idx == Indices(frags, {"flat"})
    IN  [k \in 1..Len(idx) |->
            [path |-> frags[idx[k]].path,
             name |-> frags[idx[k]].text,
             params |-> frags[idx[k] + 2].text,
             doc |-> frags[idx[k] + 3].text]]

\* the file nodes of the tree view: path, docstring leaf, number of functions
FileNodes(frags) ==
    LET idx == Indices(frags, {"file"})
        inside(k, j) == LastBefore(frags, j, "file") = idx[k]
    IN  [k \in 1..Len(idx) |->
            [path |-> frags[idx[k]].text,
             leaf |-> {frags[j].text : j \in {j \in 1..Len(frags) :
                          frags[j].t = "filedoc" /\ inside(k, j)}},
             nfuncs |-> Cardinality({j \in 1..Len(frags) :
                          frags[j].t = "func" /\ inside(k, j)})]]

\* the names of the directory nodes of the tree view
DirectoryNodes(frags) ==
    LET idx == Indices(frags, {"dir"})
    IN  [k \in 1..Len(idx) |-> frags[idx[k]].text]

PyFiles(items) ==
    LET sel == SelectSeq(items, LAMBDA it : EndsWith(it.file.name, PySuffix))
    IN  [k \in 1..Len(sel) |-> sel[k].file]

RECURSIVE PyFilesOfDirectories(_)
PyFilesOfDirectories(dirs) ==
    IF dirs = <<>> THEN <<>>
    ELSE PyFiles(OsWalk(Head(dirs))) \o PyFilesOfDirectories(Tail(dirs))

\* the '.py' files for which generate_html has appended a file node so far
Visited ==
    LET dirs == Iterate(directories)
        entered == pc \in {"walk", "crashed"} /\ di <= Len(dirs)
        before == SubSeq(dirs, 1, Min(di - 1, Len(dirs)))
        upto == IF pc = "crashed" THEN fi ELSE fi - 1
    IN  PyFilesOfDirectories(before)
        \o (IF entered THEN PyFiles(SubSeq(OsWalk(dirs[di]), 1, upto)) ELSE <<>>)

NumFunctionDefs(t) == Cardinality({i \in 1..Len(t) : IsFunctionDef(t[i])})

RECURSIVE SumFuncs(_)
SumFuncs(nodes) ==
    IF nodes = <<>> THEN 0 ELSE Head(nodes).nfuncs + SumFuncs(Tail(nodes))

(***************************************************************************)
(* C1: main() walks exactly the directories of the argument list, writes   *)
(* the document to 'documentation.html' and prints the confirmation line   *)
(* 'HTML documentation written to documentation.html'.                     *)
(***************************************************************************)
C1_MainWritesDocumentation ==
    (/\ caller = "main"
     /\ pc \in {"done", "crashed"}
     /\ \A i \in 1..Len(fs) : fs[i].status # "unopenable") =>
        /\ pc = "done"
        /\ DirectoryNodes(html_content) = [i \in 1..Len(argv) |-> Basename(argv[i])]
        /\ written.path = OutputName
        /\ written.content = html_content
        /\ stdout = <<ConfirmationPrefix \o OutputName>>

(***************************************************************************)
(* C2: a '.py' file whose text fails to parse still gets its file node,    *)
(* with no 'File Docstring' leaf and no function nodes, adds nothing to    *)
(* the flat list, and never aborts the walk: every visited file has its    *)
(* node, in order, and a parsed file has one function node per function    *)
(* definition whatever the files before it were.                           *)
(***************************************************************************)
C2_ParseFailureIsolated ==
    LET vis == Visited
        nodes == FileNodes(html_content)
    IN  /\ Len(nodes) = Len(vis)
        /\ \A k \in 1..Len(vis) :
              /\ Basename(nodes[k].path) = vis[k].name
              /\ vis[k].status = "syntax_error" =>
                    nodes[k].leaf = {} /\ nodes[k].nfuncs = 0
              /\ (vis[k].status = "ok" /\ ~vis[k].mod[1].doc.has) => nodes[k].leaf = {}
              /\ vis[k].status = "ok" => nodes[k].nfuncs = NumFunctionDefs(vis[k].mod)
        /\ Len(all_functions) = SumFuncs(nodes)
        /\ pc = "crashed" =>
              \/ exc = "TypeError"
              \/ exc = "OSError" /\ vis[Len(vis)].status = "unopenable"

C2_Witness ==
    /\ pc = "done"
    /\ \E j, k \in 1..Len(Visited) :
          /\ j < k
          /\ Visited[j].status = "syntax_error"
          /\ Visited[k].status = "ok"
          /\ FileNodes(html_content)[k].nfuncs > 0

(***************************************************************************)
(* C3: a '.py' file that cannot be opened, or whose text cannot be read or *)
(* decoded, never aborts the walk: both extractors return empty for it,    *)
(* and it appears as a file node with no docstring and no functions.       *)
(***************************************************************************)
C3_UnreadableNeverAborts ==
    LET vis == Visited
        nodes == FileNodes(html_content)
    IN  caller = "api" =>
        /\ exc # "OSError"
        /\ \A k \in 1..Len(vis) :
              vis[k].status \in {"unopenable", "undecodable"} =>
                  /\ GetFileDocstring(vis[k]) = Returned(<<>>)
                  /\ GetFunctionInfo(vis[k]) = Returned(<<>>)
                  /\ nodes[k].leaf = {} /\ nodes[k].nfuncs = 0

(***************************************************************************)
(* C7: the flat function list is an order-preserving projection of the     *)
(* tree view: one entry per function node, in the order of the function    *)
(* nodes, each with the relative path of its file and the same parameter   *)
(* text and docstring text as the node; neither text is ever empty.        *)
(***************************************************************************)
C7_FlatListProjectsTree ==
    /\ all_functions = TreeFunctions(html_content)
    /\ \A k \in 1..Len(all_functions) :
          all_functions[k].params # <<>> /\ all_functions[k].doc # <<>>
    /\ pc = "done" =>
          /\ FlatEntries(written.content) = TreeFunctions(written.content)
          /\ FlatEntries(written.content) = all_functions

C7_Witness ==
    /\ pc = "done"
    /\ Len(FlatEntries(written.content)) >= 4
    /\ \E j, k \in 1..Len(all_functions) :
          /\ all_functions[j].path # all_functions[k].path
          /\ all_functions[j].params = NoParameters
          /\ all_functions[k].params # NoParameters
          /\ all_functions[j].doc = NoDocstring
    /\ \E k \in 1..Len(all_functions) : all_functions[k].doc # NoDocstring

(***************************************************************************)
(* SpecScan: get_function_info on every tree of at most MaxNodes nodes.    *)
(***************************************************************************)
InitPipeIdle ==
    /\ argv = <<>>
    /\ fs = <<>>
    /\ caller = "none"
    /\ pc = "idle"
    /\ exc = "none"
    /\ directories = PyList(<<>>)
    /\ output_file = PyStr(<<>>)
    /\ di = 1
    /\ fi = 1
    /\ html_content = <<>>
    /\ all_functions = <<>>
    /\ written = NothingWritten
    /\ stdout = <<>>

NodeForms == {FormDef, FormPlain, FormAsync, FormClass, FormIf}

\* every assignment of parents: node 1 is the root, a parent precedes its child
Shapes(n) ==
    {p \in [1..n -> 0..(n - 1)] : p[1] = 0 /\ \A i \in 2..n : p[i] \in 1..(i - 1)}

\* the tree of n nodes with parents p and node forms f
TreeOf(n, p, f) ==
    [i \in 1..n |-> IF i = 1 THEN ModuleNode(NoDoc) ELSE Node(i, p[i], f[i])]

InitScan ==
    /\ \E n \in 1..MaxNodes :
          \E p \in Shapes(n) :
              \E f \in [2..n -> NodeForms] : tree = TreeOf(n, p, f)
    /\ scanned = NotCalled
    /\ InitPipeIdle
    /\ InitDocIdle
    /\ InitUIIdle

\* functions = get_function_info(filepath) on a file that parses to tree
Scan ==
    /\ ~scanned.done
    /\ LET r == GetFunctionInfo(SourceFile(<<"m">> \o PySuffix, "ok", tree))
       IN  scanned' = [done |-> TRUE, exc |-> r.exc, val |-> r.val]
    /\ UNCHANGED <<tree, vars_pipe, vars_doc, vars_ui>>

NextScan == Scan

SpecScan == InitScan /\ [][NextScan]_vars

\* the positions of the returned list that report node i
Reports(i) == {k \in 1..Len(scanned.val) : scanned.val[k].name = NodeName(i)}

\* the node a returned entry reports
NodeOf(k) == CHOOSE i \in 1..Len(tree) : NodeName(i) = scanned.val[k].name

RECURSIVE Depth(_, _)
Depth(t, i) == IF t[i].parent = 0 THEN 0 ELSE 1 + Depth(t, t[i].parent)

\* the nodes in pre-order: a node, then each child's subtree in source order
RECURSIVE PreOrderFrom(_, _)
PreOrderFrom(t, todo) ==
    IF todo = <<>> THEN <<>>
    ELSE <<Head(todo)>>
         \o PreOrderFrom(t, IterChildNodes(t, Head(todo)))
         \o PreOrderFrom(t, Tail(todo))

PreOrder(t) == PreOrderFrom(t, <<1>>)

PreIndex(t, i) == CHOOSE k \in 1..Len(t) : PreOrder(t)[k] = i

\* def f2: (def f3: ...) / def f4: ...   -- f1, inner, f2 of the example
ExampleTree ==
    <<ModuleNode(NoDoc), Node(2, 1, FormPlain), Node(3, 2, FormPlain),
      Node(4, 1, FormPlain)>>

ScannedNames == [k \in 1..Len(scanned.val) |-> scanned.val[k].name]

(***************************************************************************)
(* C4: every function or async-function definition, at any nesting depth,  *)
(* is reported exactly once, and nothing else is reported.                 *)
(***************************************************************************)
C4_EveryDefinitionOnce ==
    scanned.done =>
        /\ scanned.exc = "none"
        /\ \A i \in 1..Len(tree) :
              Cardinality(Reports(i)) = (IF IsFunctionDef(tree[i]) THEN 1 ELSE 0)
        /\ Len(scanned.val) = NumFunctionDefs(tree)
        /\ \A k \in 1..Len(scanned.val) :
              \E i \in 1..Len(tree) :
                  /\ scanned.val[k].name = tree[i].name
                  /\ tree[i].kind \in {"FunctionDef", "AsyncFunctionDef"}

C4_Witness ==
    /\ scanned.done
    /\ Len(tree) = 4
    /\ tree[2].kind = "ClassDef"
    /\ tree[3].kind = "FunctionDef" /\ tree[3].parent = 2
    /\ tree[4].kind = "AsyncFunctionDef" /\ tree[4].parent = 3
    /\ Len(scanned.val) = 2

(***************************************************************************)
(* C5: the recorded parameter list of a function is the ordered names of   *)
(* all its positional parameters, the positional-only ones included, and   *)
(* holds no variadic or keyword-only name.                                 *)
(***************************************************************************)
C5_AllPositionalParameters ==
    scanned.done =>
        \A k \in 1..Len(scanned.val) :
            LET a == tree[NodeOf(k)].args
            IN  /\ scanned.val[k].params = a.posonlyargs \o a.args
                /\ \A j \in 1..Len(scanned.val[k].params) :
                      scanned.val[k].params[j] \notin
                          {a.vararg[n] : n \in 1..Len(a.vararg)}
                          \cup {a.kwonlyargs[n] : n \in 1..Len(a.kwonlyargs)}
                          \cup {a.kwarg[n] : n \in 1..Len(a.kwarg)}

(***************************************************************************)
(* C9 as stated: the functions are recorded in pre-order, a nested         *)
(* function right after its enclosing function and before that function's  *)
(* later siblings (f1, inner, f2 for the example).                         *)
(***************************************************************************)
C9_PreOrder ==
    scanned.done =>
        ScannedNames =
            LET defs == SelectSeq(PreOrder(tree), LAMBDA i : IsFunctionDef(tree[i]))
            IN  [k \in 1..Len(defs) |-> tree[defs[k]].name]

(***************************************************************************)
(* C9 amended: the functions are recorded in breadth-first order: a        *)
(* function of lesser nesting depth comes before every deeper one, and     *)
(* functions of equal depth come in source order; the example is reported  *)
(* as f1, f2, inner.                                                       *)
(***************************************************************************)
C9_BreadthFirst ==
    scanned.done =>
        /\ \A j, k \in 1..Len(scanned.val) :
              j < k =>
                  LET a == NodeOf(j)
                      b == NodeOf(k)
                  IN  \/ Depth(tree, a) < Depth(tree, b)
                      \/ /\ Depth(tree, a) = Depth(tree, b)
                         /\ PreIndex(tree, a) < PreIndex(tree, b)
        /\ tree = ExampleTree =>
              ScannedNames = <<NodeName(2), NodeName(4), NodeName(3)>>

C9_Witness ==
    /\ scanned.done
    /\ tree = ExampleTree
    /\ ScannedNames = <<NodeName(2), NodeName(4), NodeName(3)>>

(***************************************************************************)
(* SpecDoc: get_file_docstring on every literal of at most MaxLit          *)
(* characters.                                                             *)
(***************************************************************************)
DocAlphabet == {"a", " ", "\n", "\t"}
Literals == UNION {[1..n -> DocAlphabet] : n \in 0..MaxLit}
DocName == <<"m">> \o PySuffix
DocFiles ==
    {SourceFile(DocName, "ok", <<ModuleNode(DocLit(s))>>) : s \in Literals}
    \cup {SourceFile(DocName, st, <<ModuleNode(NoDoc)>>) :
            st \in {"ok", "syntax_error", "undecodable", "unopenable"}}

DocNotCalled == [done |-> FALSE, exc |-> "none", val |-> <<>>, leaf |-> <<>>]

InitDoc ==
    /\ srcfile \in DocFiles
    /\ docstring = DocNotCalled
    /\ InitPipeIdle
    /\ InitScanIdle
    /\ InitUIIdle

\* lines 115-117: file_docstring = get_file_docstring(filepath), and its leaf
ReadDocstring ==
    /\ ~docstring.done
    /\ LET r == GetFileDocstring(srcfile)
       IN  docstring' = [done |-> TRUE, exc |-> r.exc, val |-> r.val,
                         leaf |-> IF r.exc = "none" THEN FileDocLeaf(r.val) ELSE <<>>]
    /\ UNCHANGED <<srcfile, vars_pipe, vars_scan, vars_ui>>

NextDoc == ReadDocstring

SpecDoc == InitDoc /\ [][NextDoc]_vars

\* the literal of the module's leading string statement
Literal == srcfile.mod[1].doc.lit
HasLiteral == srcfile.status = "ok" /\ srcfile.mod[1].doc.has

\* a literal that is already in the cleaned form: no tab, no whitespace at
\* its start, no newline at its end, no indentation shared by all non-blank
\* continuation lines
IsPlain(lit) ==
    LET nl == {i \in 1..Len(lit) : lit[i] = "\n"}
    IN  /\ \A i \in 1..Len(lit) : lit[i] # "\t"
        /\ lit # <<>> => ~IsSpace(lit[1]) /\ lit[Len(lit)] # "\n"
        /\ \/ nl = {}
           \/ \E i \in nl : i < Len(lit) /\ ~IsSpace(lit[i + 1])
           \/ \A i \in nl : \A j \in (i + 1)..Len(lit) : IsSpace(lit[j])

\* the text without its whitespace
Squeeze(s) == SelectSeq(s, LAMBDA c : ~IsSpace(c))

(***************************************************************************)
(* C6 as stated: the file docstring equals the leading literal's content   *)
(* exactly, nothing trimmed and nothing re-indented.                       *)
(***************************************************************************)
C6_LiteralUnmodified ==
    (docstring.done /\ HasLiteral) => docstring.val = Literal

(***************************************************************************)
(* C6 amended: the file docstring is the literal cleaned as by             *)
(* inspect.cleandoc.  It equals the literal exactly when the literal has   *)
(* no tab, no leading whitespace, no trailing newline and no indentation   *)
(* common to its continuation lines; otherwise only whitespace is removed  *)
(* or expanded (the non-blank characters are kept in order), the result    *)
(* holds no tab and neither starts nor ends with an empty line; and the    *)
(* 'File Docstring' leaf carries that text, present iff it is not empty.   *)
(***************************************************************************)
C6_LiteralCleaned ==
    (docstring.done /\ HasLiteral) =>
        LET v == docstring.val
        IN  /\ docstring.exc = "none"
            /\ IsPlain(Literal) => v = Literal
            /\ Squeeze(v) = Squeeze(Literal)
            /\ \A i \in 1..Len(v) : v[i] # "\t"
            /\ v # <<>> => v[1] # "\n" /\ v[Len(v)] # "\n"
            /\ docstring.leaf =
                  (IF v = <<>> THEN <<>> ELSE <<Frag("filedoc", v, <<>>)>>)

C6_Witness ==
    /\ docstring.done
    /\ HasLiteral
    /\ Literal = <<" ", "a", "\n">>
    /\ docstring.val = <<"a">>
    /\ Len(docstring.leaf) = 1

(***************************************************************************)
(* SpecUI: the embedded script, on the page generate_html renders for      *)
(* p/a.py = '"""M"""  def f2(x, y): """ d"""'.                              *)
(***************************************************************************)
PageModule == <<ModuleNode(DocLit(<<"M">>)), Node(2, 1, FormDef)>>
PageFile == SourceFile(<<"a">> \o PySuffix, "ok", PageModule)
PagePath == Relpath(PathJoin(P, PageFile.name), P)

\* html_content at line 150 for generate_html(['p'], ...)
PageFrags ==
    Preamble
    \o <<Frag("dir", Basename(P), <<>>), Tag("ul_nested")>>
    \o <<Frag("file", PagePath, <<>>), Tag("ul_nested")>>
    \o FileDocLeaf(GetFileDocstring(PageFile).val)
    \o FunctionNodes(GetFunctionInfo(PageFile).val)
    \o <<Tag("end"), Tag("end")>>
    \o Epilogue(AllFunctionsExtend(<<>>, PagePath, GetFunctionInfo(PageFile).val))

\* the fragments that open an <li> closed by a later '</ul></li>', and the
\* fragments that are a whole <li>
LiOpeners == {"dir", "file", "func", "flat"}
LiLeaves == {"filedoc", "params", "doc"}
Li == {j \in 1..Len(PageFrags) : PageFrags[j].t \in LiOpeners \cup LiLeaves}

\* document.getElementsByClassName("caret"): the spans of lines 103, 112, 125
Carets == {j \in 1..Len(PageFrags) : PageFrags[j].t \in {"dir", "file", "func"}}

\* the <li> elements open at fragment j, innermost last
RECURSIVE OpenAt(_)
OpenAt(j) ==
    IF j = 0 THEN <<>>
    ELSE LET before == OpenAt(j - 1)
             t == PageFrags[j].t
         IN  IF t \in LiOpeners THEN Append(before, j)
             ELSE IF t = "end" THEN SubSeq(before, 1, Len(before) - 1)
             ELSE before

\* the <li> elements that contain <li> j
Ancestors(j) == {OpenAt(j - 1)[k] : k \in 1..Len(OpenAt(j - 1))}
Descendants(j) == {k \in Li : j \in Ancestors(k)}

\* the id of the top-level list an <li> lies in
ViewOf(j) ==
    IF j < (CHOOSE k \in 1..Len(PageFrags) : PageFrags[k].t = "end_tree")
    THEN "fileTree" ELSE "functionList"

\* the text of the fragment's own markup
LabelFunction == <<"F", "u", "n", "c", "t", "i", "o", "n", ":", " ">>
LabelFileDocstring ==
    <<"F", "i", "l", "e", " ", "D", "o", "c", "s", "t", "r", "i", "n", "g", ":", " ">>
LabelParameters == <<"P", "a", "r", "a", "m", "e", "t", "e", "r", "s", ":", " ">>
LabelDocstring == <<"D", "o", "c", "s", "t", "r", "i", "n", "g", ":", " ">>
OwnText(f) ==
    IF f.t = "func" THEN LabelFunction \o f.text
    ELSE IF f.t = "filedoc" THEN LabelFileDocstring \o f.text
    ELSE IF f.t = "params" THEN LabelParameters \o f.text
    ELSE IF f.t = "doc" THEN LabelDocstring \o f.text
    ELSE IF f.t = "flat" THEN f.text \o <<" ", "i", "n", " ">> \o f.path
    ELSE f.text

\* element.textContent: the element's text and its descendants', in document
\* order, the fragments being joined by newlines (line 153)
RECURSIVE TextFrom(_, _)
TextFrom(j, last) ==
    IF j > last THEN <<>>
    ELSE (IF j \in Li THEN <<"\n">> \o OwnText(PageFrags[j]) ELSE <<>>)
         \o TextFrom(j + 1, last)

TextContent(j) ==
    LET inside == Descendants(j) \cup {j}
        last == CHOOSE k \in inside : \A m \in inside : m <= k
    IN  OwnText(PageFrags[j]) \o TextFrom(j + 1, last)

UpperLetters ==
    <<"A", "B", "C", "D", "E", "F", "G", "H", "I", "J", "K", "L", "M", "N",
      "O", "P", "Q", "R", "S", "T", "U", "V", "W", "X", "Y", "Z">>
LowerLetters ==
    <<"a", "b", "c", "d", "e", "f", "g", "h", "i", "j", "k", "l", "m", "n",
      "o", "p", "q", "r", "s", "t", "u", "v", "w", "x", "y", "z">>

\* String.prototype.toLowerCase
ToLowerCase(s) ==
    [i \in 1..Len(s) |->
        IF \E k \in 1..26 : UpperLetters[k] = s[i]
        THEN LowerLetters[CHOOSE k \in 1..26 : UpperLetters[k] = s[i]]
        ELSE s[i]]

\* String.prototype.includes
Includes(s, q) ==
    \E i \in 0..(Len(s) - Len(q)) : SubSeq(s, i + 1, i + Len(q)) = q

\* the style sheet, lines 38-48: the display of an element without inline style
CssDisplay(el) == IF el \in {"functionList", "viewTitle"} THEN "none" ELSE "block"

\* the computed display: the inline style wins over the style sheet
Display(el) == IF style[el] # "" THEN style[el] ELSE CssDisplay(el)

\* li.parentElement.querySelector(".nested"): the first ul.nested inside the <li>
QuerySelectorNested(c) ==
    LET inside == Descendants(c) \cup {c}
        last == CHOOSE k \in inside : \A m \in inside : m <= k
        uls == {k \in (c + 1)..(last + 1) : PageFrags[k].t = "ul_nested"}
    IN  CHOOSE k \in uls : \A m \in uls : k <= m

\* classList.toggle
Toggle(S, x) == IF x \in S THEN S \ {x} ELSE S \cup {x}

QueryAlphabet == {"f", "F", "x", "z"}
Queries == UNION {[1..n -> QueryAlphabet] : n \in 0..MaxQuery}

\* the page as loaded: no inline style, no class added
InitUI ==
    /\ style = [el \in {"fileTree", "functionList", "viewTitle"} |-> ""]
    /\ liDisplay = [j \in Li |-> ""]
    /\ active = {}
    /\ caretDown = {}
    /\ query = <<>>
    /\ toggleClicks = 0
    /\ InitPipeIdle
    /\ InitScanIdle
    /\ InitDocIdle

UIOnly == UNCHANGED <<vars_pipe, vars_scan, vars_doc>>

\* a toggle handler that shows the flat list without hiding the tree
ClickToggleKeepsTree ==
    /\ IF style["fileTree"] = "none"
       THEN style' = [style EXCEPT !["fileTree"] = "block",
                                   !["functionList"] = "none",
                                   !["viewTitle"] = "none"]
       ELSE style' = [style EXCEPT !["functionList"] = "block",
                                   !["viewTitle"] = "block"]
    /\ toggleClicks' = (toggleClicks + 1) % 2
    /\ UNCHANGED <<liDisplay, active, caretDown, query>>
    /\ UIOnly

\* lines 61-75: click on #toggleViewBtn
ClickToggle ==
    /\ IF style["fileTree"] = "none"
       THEN style' = [style EXCEPT !["fileTree"] = "block",
                                   !["functionList"] = "none",
                                   !["viewTitle"] = "none"]
       ELSE style' = [style EXCEPT !["fileTree"] = "none",
                                   !["functionList"] = "block",
                                   !["viewTitle"] = "block"]
    /\ toggleClicks' = (toggleClicks + 1) % 2
    /\ UNCHANGED <<liDisplay, active, caretDown, query>>
    /\ UIOnly

\* file.textContent and file.textContent.toLowerCase() of every <li>
LiText == [j \in Li |-> TextContent(j)]
LiTextLower == [j \in Li |-> ToLowerCase(TextContent(j))]

\* a filter that lower-cases the query but not the item's text
FilterCaseSensitive(q) ==
    [j \in Li |-> IF Includes(LiText[j], ToLowerCase(q)) THEN "" ELSE "none"]

\* lines 79-87: the display every <li> of both lists gets for the value q
Filter(q) ==
    [j \in Li |-> IF Includes(LiTextLower[j], ToLowerCase(q)) THEN "" ELSE "none"]

\* lines 78-88: input on #searchBox
SearchInput ==
    /\ \E q \in Queries :
          /\ query' = q
          /\ liDisplay' = Filter(q)
    /\ UNCHANGED <<style, active, caretDown, toggleClicks>>
    /\ UIOnly

\* this.parentElement.querySelector(".nested") of every caret
NestedOf == [c \in Carets |-> QuerySelectorNested(c)]

\* lines 54-57: click on a caret
ClickCaret ==
    /\ \E c \in Carets :
          /\ active' = Toggle(active, NestedOf[c])
          /\ caretDown' = Toggle(caretDown, c)
    /\ UNCHANGED <<style, liDisplay, query, toggleClicks>>
    /\ UIOnly

NextUI ==
    \/ ClickToggle
    \/ SearchInput
    \/ ClickCaret

SpecUI == InitUI /\ [][NextUI]_vars

\* what the browser shows
TreeVisible == Display("fileTree") # "none"
ListVisible == Display("functionList") # "none"
TitleVisible == Display("viewTitle") # "none"

\* the ul.nested an <li> of the tree lies in: the child list of each ancestor
Collapsed(j) == \E a \in Ancestors(j) : a \in Carets /\ (a + 1) \notin active

\* an <li> is on screen: its view is shown, neither it nor an ancestor is
\* filtered out, and every list around it is expanded
Rendered(j) ==
    /\ Display(ViewOf(j)) # "none"
    /\ \A a \in Ancestors(j) \cup {j} : liDisplay[a] # "none"
    /\ ~Collapsed(j)

SameIgnoringCase(a, b) ==
    \/ a = b
    \/ \E k \in 1..26 : {a, b} = {UpperLetters[k], LowerLetters[k]}

\* q occurs in s, letters compared without regard to case
OccursIgnoringCase(s, q) ==
    \E i \in 0..(Len(s) - Len(q)) :
        \A k \in 1..Len(q) : SameIgnoringCase(s[i + k], q[k])

(***************************************************************************)
(* C8: exactly one of #fileTree and #functionList is visible, #viewTitle   *)
(* is visible iff the flat list is, every click on the toggle button       *)
(* switches the visible view, and the tree is the one visible initially    *)
(* (so the tree is visible exactly after an even number of clicks).        *)
(***************************************************************************)
C8_ViewsExclusive ==
    /\ TreeVisible # ListVisible
    /\ TitleVisible <=> ListVisible
    /\ TreeVisible <=> (toggleClicks = 0)

C8_Witness ==
    /\ toggleClicks = 1
    /\ ListVisible /\ TitleVisible /\ ~TreeVisible
    /\ query # <<>>
    /\ caretDown # {}

(***************************************************************************)
(* C10: an <li> is displayed iff its text contains the query, case         *)
(* ignored (every item for the empty query); a search input leaves every   *)
(* nested list and caret as it was; a caret click toggles only the child   *)
(* list of its own <li> and its own caret-down class, and changes no       *)
(* item's display; all nested lists are collapsed initially.               *)
(***************************************************************************)
C10_SearchAndCaretFrames ==
    /\ active = {} /\ caretDown = {}
    /\ [](\A j \in Li :
            /\ liDisplay[j] \in {"", "none"}
            /\ (liDisplay[j] = "") <=> OccursIgnoringCase(TextContent(j), query))
    /\ [][/\ (query' # query \/ liDisplay' # liDisplay) =>
                UNCHANGED <<active, caretDown, style>>
          /\ (active' # active \/ caretDown' # caretDown) =>
                /\ UNCHANGED <<liDisplay, query, style>>
                /\ \E c \in Carets :
                      /\ active' = Toggle(active, c + 1)
                      /\ caretDown' = Toggle(caretDown, c)]_vars

\* after a search for "x", the parameters item of the tree matches and has
\* its own display restored, but stays hidden under its collapsed function
\* node although the directory node has been expanded
C10_Witness ==
    /\ query = <<"x">>
    /\ active # {}
    /\ \E j \in Li :
          /\ ViewOf(j) = "fileTree"
          /\ PageFrags[j].t = "params"
          /\ liDisplay[j] = ""
          /\ Collapsed(j)
          /\ ~Rendered(j)
    /\ \E j \in Li : liDisplay[j] = "none"

====
